---- MODULE Spec2Model ----
(***************************************************************************)
(* Model of the remote-video-server: the video record store, the asset     *)
(* directory of each video, the createVideo processing pipeline, the       *)
(* delete handler with its background folder removal, the signed-URL       *)
(* functions and the HTTP handlers of routes/videos.                       *)
(*                                                                         *)
(* Strings that the code concatenates or parses (ids, expires) are         *)
(* sequences of one-character strings.                                     *)
(***************************************************************************)
EXTENDS Integers, Sequences, FiniteSets, TLC

\* ------------------------------------------------------------------ sets
\* Video ids (the _id the store assigns) and the subjects of bearer tokens.
VideoIds == {<<"v">>}
Users == {<<"u">>, <<"w">>}
\* The subjects that upload.
Uploaders == {<<"u">>}
\* A request without a valid bearer token.
Anon == <<>>

\* Results the ffprobe call can deliver (format.duration, an audio stream).
ProbeResults == {[duration |-> 10, hasAudio |-> TRUE],
                 [duration |-> 10, hasAudio |-> FALSE]}

NoRec == [userId |-> Anon]
\* The locals of a createVideo call that is not running.
NoLocals == [custom |-> FALSE, duration |-> 0, hasAudio |-> FALSE]
Unset == ""

\* File names inside the asset directory VIDEO_PATH/<id>; <id> is fixed per
\* directory, so the names are written with ID for it.
masterPlaylist == "ID_master.m3u8"
segmentFiles == "ID_v%v_%03d.ts"
staticThumb == "ID.webp"
animatedThumb == "ID_animated.webp"
customThumb == "ID_custom.webp"
jpegFrame == "thumb.jpg"
originalVideo == "ID_original.ext"

\* Request bodies of PATCH /videos/:id that are tried; a field the body does
\* not carry is Undefined.
Undefined == "undefined"
Bodies == {[title |-> "t", description |-> Undefined, category |-> "c",
            tags |-> Undefined]}
NoPatch == [uid |-> Anon]

maxRetries == 10

\* How many removals in a row the filesystem can refuse (EBUSY, ENOTEMPTY
\* or another code): up to MaxBusy, or as many as deleteFolderUntilGone tries. It
\* need not refuse any, so a level covers the lower ones.
MaxBusy == 1
BusyLevels == {MaxBusy, maxRetries}

\* The clock starts at TickMs and advances MaxTicks times by TickMs (ms).
TickMs == 900000
MaxTicks == 2

\* A signature is the digest of a message under a key; NoSig is none given.
NoSig == [key |-> "", msg |-> <<>>]
NoTok == [expires |-> <<>>, signature |-> NoSig, uid |-> Anon]

VARIABLES
    record,     \* record[id]: the File document of id, or NoRec
    dir,        \* dir[id]: the asset directory VIDEO_PATH/<id> exists
    files,      \* files[id]: the files inside the asset directory
    input,      \* input[id]: the uploaded file is still at its intake path
    tmpThumb,   \* tmpThumb[id]: a temporary thumbnail file of multer exists
    pc,         \* pc[id]: where the createVideo run of id is suspended
    loc,        \* loc[id]: locals of the run (customThumbnailPath, metadata)
    del,        \* del[id]: the delete request and its deleteFolderUntilGone task
    cthumb,     \* cthumb[id]: the createCustomThumbnail task
    patch,      \* patch[id]: a metadata edit between its two store calls
    now,        \* Date.now(), in milliseconds
    tok,        \* tok[id]: the signed query last issued for id, or NoTok
    fsBusy,     \* how many removals in a row the filesystem can refuse
    intake,     \* the files multer stored for uploads that got no record
    resp        \* the HTTP response sent by the step just taken, or NoResp

vars == <<record, dir, files, input, tmpThumb, pc, loc, del, cthumb, patch, now, tok,
          fsBusy, intake, resp>>

\* What no step of the server changes by itself, and the files of refused
\* uploads, which only intake changes.
env == <<now, tok, fsBusy, intake>>

\* A response: the handler h, the id and the subject uid of the request, the
\* status code and error text, the videoStatus and userId of the record the
\* handler loaded (seen, owner), what it served (body) and the signed query
\* it returned (tok).
\* The head and the bytes of a download response: the Range header asked
\* (req), stat.size, Content-Range, Content-Length and the bytes streamed.
NoDl == [req |-> <<>>, size |-> 0, range |-> <<>>, length |-> 0, first |-> 0, last |-> -1]

NoResp == [h |-> "none", id |-> Anon, uid |-> Anon, code |-> 0, err |-> "",
           seen |-> "", owner |-> Anon, body |-> "", tok |-> NoTok, dl |-> NoDl]

ReplyWith(h, id, uid, code, err, r, body, tk) ==
    [h |-> h, id |-> id, uid |-> uid, code |-> code, err |-> err,
     seen |-> IF r = NoRec THEN "" ELSE r.videoStatus, owner |-> r.userId,
     body |-> body, tok |-> tk, dl |-> NoDl]

Reply(h, id, uid, code, err, r) == ReplyWith(h, id, uid, code, err, r, "", NoTok)

\* A step that sends no response.
Silent == resp' = NoResp

\* A step that sends the response r: the event loop runs one callback at a
\* time, and the response of the one before has been written out (Sent).
Respond(r) == resp = NoResp /\ resp' = r

Sent ==
    /\ resp # NoResp
    /\ resp' = NoResp
    /\ UNCHANGED <<record, dir, files, input, tmpThumb, pc, loc, del, cthumb, patch,
                   now, tok, fsBusy, intake>>

\* The server after start: an empty store, no asset directory, no request.
InitStore ==
    /\ record = [id \in VideoIds |-> NoRec]
    /\ dir = [id \in VideoIds |-> FALSE]
    /\ files = [id \in VideoIds |-> {}]
    /\ input = [id \in VideoIds |-> FALSE]
    /\ tmpThumb = [id \in VideoIds |-> FALSE]
    /\ pc = [id \in VideoIds |-> "none"]
    /\ loc = [id \in VideoIds |-> NoLocals]
    /\ del = [id \in VideoIds |-> [task |-> "idle", retries |-> 0, db |-> "none", uid |-> Anon]]
    /\ cthumb = [id \in VideoIds |-> "idle"]
    /\ patch = [id \in VideoIds |-> NoPatch]
    /\ now = TickMs
    /\ fsBusy \in BusyLevels
    /\ intake = {}
    /\ resp = NoResp

Init == InitStore /\ tok = [id \in VideoIds |-> NoTok]

\* The server on a filesystem that refuses a removal at most MaxBusy times.
InitCalm == Init /\ fsBusy = MaxBusy

\* ------------------------------------------------ verifyToken middleware
\* A request carries the subject of a valid bearer token, or none (Anon).
verifyToken(uid) == uid \in Users

\* ------------------------------------------------------- POST /videos
\* Intake: multer has stored the video (and the thumbnail); the handler
\* inserts the record with videoStatus inProgress, starts createVideo
\* without awaiting it and answers with the inserted document.
newRecord(uid) ==
    [userId |-> uid, videoStatus |-> "inProgress",
     title |-> "", description |-> "", category |-> "", tags |-> "",
     hls |-> Unset, static_thumbnail |-> Unset, animated_thumbnail |-> Unset,
     custom_thumbnail |-> Unset, original_video |-> Unset, duration |-> -1]

PostVideos(uid, id, thumb) ==
    /\ verifyToken(uid)
    /\ pc[id] = "none" /\ record[id] = NoRec
    /\ record' = [record EXCEPT ![id] = newRecord(uid)]
    /\ input' = [input EXCEPT ![id] = TRUE]
    /\ tmpThumb' = [tmpThumb EXCEPT ![id] = thumb]
    /\ loc' = [loc EXCEPT ![id].custom = thumb]
    /\ pc' = [pc EXCEPT ![id] = "start"]
    /\ Respond(ReplyWith("postVideos", id, uid, 200, "", newRecord(uid), "record", NoTok))
    /\ UNCHANGED <<dir, files, del, cthumb, patch, env>>

\* The sizes of the thumbnail that comes with an upload: none (0), the
\* largest one accepted, one byte more.
MaxThumbBytes == 5 * 1024 * 1024
ThumbSizes == {0, MaxThumbBytes, MaxThumbBytes + 1}

\* What the handler answers before it creates anything, or NoResp when the
\* request passes its checks.
IntakeRefusal(uid, hasVideo, thumbSize) ==
    IF ~verifyToken(uid) THEN Reply("postVideos", Anon, uid, 401, "Missing token", NoRec)
    ELSE IF ~hasVideo THEN Reply("postVideos", Anon, uid, 400, "No files received", NoRec)
    ELSE IF thumbSize > 0 /\ thumbSize > 5 * 1024 * 1024
    THEN Reply("postVideos", Anon, uid, 413, "Thumbnail too large", NoRec)
    ELSE NoResp

\* The files multer has stored for a request that intake refuses and that
\* the handler leaves in the intake area: verifyToken refuses before multer
\* runs; "No files received" removes nothing; "Thumbnail too large" unlinks
\* the thumbnail only.
Leftover(uid, hasVideo, thumbSize) ==
    IF ~verifyToken(uid) THEN {}
    ELSE IF ~hasVideo THEN (IF thumbSize > 0 THEN {"thumbnail"} ELSE {})
    ELSE {"video"}

\* PostVideosInvalid as it would be if the record were inserted before the
\* checks.
PostVideosInvalidStored(uid, hasVideo, thumbSize) ==
    /\ IntakeRefusal(uid, hasVideo, thumbSize) # NoResp
    /\ Respond(IntakeRefusal(uid, hasVideo, thumbSize))
    /\ \E id \in VideoIds :
            /\ record[id] = NoRec /\ pc[id] = "none"
            /\ record' = [record EXCEPT ![id] = newRecord(uid)]
    /\ intake' = intake \cup Leftover(uid, hasVideo, thumbSize)
    /\ UNCHANGED <<dir, files, input, tmpThumb, pc, loc, del, cthumb, patch, now, tok,
                   fsBusy>>

\* A request that intake refuses: no token, no video file, or a thumbnail
\* over 5 MB (its temporary file is unlinked).
PostVideosInvalid(uid, hasVideo, thumbSize) ==
    /\ IntakeRefusal(uid, hasVideo, thumbSize) # NoResp
    /\ Respond(IntakeRefusal(uid, hasVideo, thumbSize))
    /\ intake' = intake \cup Leftover(uid, hasVideo, thumbSize)
    /\ UNCHANGED <<record, dir, files, input, tmpThumb, pc, loc, del, cthumb, patch, now,
                   tok, fsBusy>>

\* A request that passes the checks and whose File.create rejects: the catch
\* answers 400 "Insert failed"; no run is started and no file is removed.
PostVideosInsertFails(uid, thumb) ==
    /\ verifyToken(uid)
    /\ Respond(Reply("postVideos", Anon, uid, 400, "Insert failed", NoRec))
    /\ intake' = intake \cup {"video"} \cup (IF thumb THEN {"thumbnail"} ELSE {})
    /\ UNCHANGED <<record, dir, files, input, tmpThumb, pc, loc, del, cthumb, patch, now,
                   tok, fsBusy>>

\* ------------------------------------------------------- createVideo
\* The run is suspended at an await; every action below is the code from
\* one resumption to the next await (or to the end of the finally block).

\* The run goes on to p with the locals l; when it returns they are gone.
Enter(id, p, l) ==
    /\ pc' = [pc EXCEPT ![id] = p]
    /\ loc' = [loc EXCEPT ![id] = IF p = "done" THEN NoLocals ELSE l]

Goto(id, p) == Enter(id, p, loc[id]) /\ UNCHANGED input

folderExistsOrExit(id) == dir[id]

\* finally block: move the original into the asset directory, or unlink
\* the orphan (unlinkSync may throw; then one retry after a second).
Finally(id) ==
    IF input[id]
    THEN IF dir[id]
         THEN Goto(id, "rename")
         ELSE \E ok \in {TRUE, fsBusy = 0} :
                IF ok
                THEN /\ Enter(id, "done", loc[id])
                     /\ input' = [input EXCEPT ![id] = FALSE]
                ELSE Goto(id, "retryUnlink")
    ELSE Goto(id, "done")

\* catch block: a failure seen while the folder is absent is a deletion.
Catch(id) ==
    IF ~dir[id] THEN Finally(id) ELSE Goto(id, "errUpdate")

\* GateUpdate as it would be if the update condition did not look at the
\* folder.
GateUpdateOpen(id, d, fs, l) == Enter(id, "exists", l) /\ UNCHANGED input

\* Update the database if the video still exists (folder check first).
GateUpdate(id, d, fs, l) ==
    IF d THEN Enter(id, "exists", l) /\ UNCHANGED input ELSE Finally(id)

\* GateAnimated as it would be without folderExistsOrExit.
GateAnimatedOpen(id, d, fs, l) ==
    IF animatedThumb \notin fs THEN Enter(id, "animated", l) /\ UNCHANGED input
    ELSE GateUpdate(id, d, fs, l)

\* === ANIMATED THUMBNAIL === gate and skip when the file is there.
GateAnimated(id, d, fs, l) ==
    IF ~d THEN Finally(id)
    ELSE IF animatedThumb \notin fs THEN Enter(id, "animated", l) /\ UNCHANGED input
    ELSE GateUpdate(id, d, fs, l)

\* GateHls as it would be if the transcode were started whether or not the
\* master playlist is there.
GateHlsAlways(id, d, fs, l) ==
    IF ~d THEN Finally(id) ELSE Enter(id, "hls", l) /\ UNCHANGED input

\* === HLS CONVERSION === gate and skip when the master playlist is there.
GateHls(id, d, fs, l) ==
    IF ~d THEN Finally(id)
    ELSE IF masterPlaylist \notin fs THEN Enter(id, "hls", l) /\ UNCHANGED input
    ELSE GateAnimated(id, d, fs, l)

\* CheckRecord as it would be if the run went on to the probe without
\* looking for the record.
CheckRecordSkipped(id) ==
    /\ pc[id] = "start"
    /\ Goto(id, "probe")
    /\ Silent
    /\ UNCHANGED <<record, dir, files, tmpThumb, del, cthumb, patch, env>>

\* 1. Check if the video exists in the DB.
CheckRecord(id) ==
    /\ pc[id] = "start"
    /\ IF record[id] = NoRec THEN Finally(id) ELSE Goto(id, "probe")
    /\ Silent
    /\ UNCHANGED <<record, dir, files, tmpThumb, del, cthumb, patch, env>>

\* getVideoMetadata resolves or rejects; on success the folder is made and
\* the thumbnail stage starts.
ProbeDone(id) ==
    /\ pc[id] = "probe"
    /\ \/ \E m \in ProbeResults :
            LET l == [loc[id] EXCEPT !.duration = m.duration, !.hasAudio = m.hasAudio] IN
            /\ input[id]
            /\ dir' = [dir EXCEPT ![id] = TRUE]
            /\ IF l.custom /\ tmpThumb[id]
               THEN Enter(id, "sharpCustom", l) /\ UNCHANGED input
               ELSE IF ~l.custom THEN Enter(id, "frame", l) /\ UNCHANGED input
               ELSE GateHls(id, TRUE, files[id], l)
       \/ /\ Catch(id)
          /\ UNCHANGED dir
    /\ Silent
    /\ UNCHANGED <<record, files, tmpThumb, del, cthumb, patch, env>>

\* SharpCustom as it would be if the supplied thumbnail were unlinked
\* without being converted.
SharpCustomDropped(id) ==
    /\ pc[id] = "sharpCustom"
    /\ \/ /\ dir[id]
          /\ tmpThumb' = [tmpThumb EXCEPT ![id] = FALSE]
          /\ GateHls(id, folderExistsOrExit(id), files[id], loc[id])
          /\ UNCHANGED files
       \/ /\ Catch(id)
          /\ UNCHANGED <<files, tmpThumb>>
    /\ Silent
    /\ UNCHANGED <<record, dir, del, cthumb, patch, env>>

\* sharp(customThumbnailPath).webp().toFile(customThumbPath), then unlink.
SharpCustom(id) ==
    /\ pc[id] = "sharpCustom"
    /\ \/ /\ dir[id]
          /\ files' = [files EXCEPT ![id] = @ \cup {customThumb}]
          /\ tmpThumb' = [tmpThumb EXCEPT ![id] = FALSE]
          /\ GateHls(id, folderExistsOrExit(id), files'[id], loc[id])
       \/ /\ Catch(id)
          /\ UNCHANGED <<files, tmpThumb>>
    /\ Silent
    /\ UNCHANGED <<record, dir, del, cthumb, patch, env>>

\* ffmpeg writes one frame to thumb.jpg ("end"), or fails ("error"). A run
\* whose folder was removed under it can still end: nothing is left of it.
FrameDone(id) ==
    /\ pc[id] = "frame"
    /\ \/ /\ files' = [files EXCEPT ![id] = IF dir[id] THEN @ \cup {jpegFrame} ELSE @]
          /\ IF folderExistsOrExit(id) THEN Goto(id, "readJpeg") ELSE Finally(id)
       \/ /\ Catch(id)
          /\ UNCHANGED files
    /\ Silent
    /\ UNCHANGED <<record, dir, tmpThumb, del, cthumb, patch, env>>

\* fs.promises.readFile(jpegFramePath) resolves, or rejects (no such file).
ReadJpeg(id) ==
    /\ pc[id] = "readJpeg"
    /\ IF jpegFrame \in files[id] THEN Goto(id, "sharpStatic") ELSE Catch(id)
    /\ Silent
    /\ UNCHANGED <<record, dir, files, tmpThumb, del, cthumb, patch, env>>

\* sharp(jpegBuffer).webp().toFile(staticThumbPath).
SharpStatic(id) ==
    /\ pc[id] = "sharpStatic"
    /\ \/ /\ dir[id]
          /\ files' = [files EXCEPT ![id] = @ \cup {staticThumb}]
          /\ Goto(id, "unlinkJpeg")
       \/ /\ Catch(id)
          /\ UNCHANGED files
    /\ Silent
    /\ UNCHANGED <<record, dir, tmpThumb, del, cthumb, patch, env>>

\* fs.promises.unlink(jpegFramePath), then the HLS gate.
UnlinkJpeg(id) ==
    /\ pc[id] = "unlinkJpeg"
    /\ IF jpegFrame \in files[id]
       THEN /\ files' = [files EXCEPT ![id] = @ \ {jpegFrame}]
            /\ GateHls(id, folderExistsOrExit(id), files'[id], loc[id])
       ELSE /\ Catch(id)
            /\ UNCHANGED files
    /\ Silent
    /\ UNCHANGED <<record, dir, tmpThumb, del, cthumb, patch, env>>

\* audioOptions as it would be if the audio were mapped whatever the probe
\* found.
audioOptionsAlways(hasAudio) ==
    [maps |-> <<"0:a", "0:a", "0:a", "0:a">>,
     codec |-> <<"-c:a", "aac", "-b:a", "128k">>,
     var_stream_map |-> <<<<"v:0", "a:0">>, <<"v:1", "a:1">>, <<"v:2", "a:2">>,
                          <<"v:3", "a:3">>>>]

\* audioOptions of the transcode: the inputs of its -map options, the audio
\* codec options, and -var_stream_map as the list of its variants, each the
\* list of its streams.
audioOptions(hasAudio) ==
    IF hasAudio
    THEN [maps |-> <<"0:a", "0:a", "0:a", "0:a">>,
          codec |-> <<"-c:a", "aac", "-b:a", "128k">>,
          var_stream_map |-> <<<<"v:0", "a:0">>, <<"v:1", "a:1">>, <<"v:2", "a:2">>,
                               <<"v:3", "a:3">>>>]
    ELSE [maps |-> <<>>, codec |-> <<>>,
          var_stream_map |-> <<<<"v:0">>, <<"v:1">>, <<"v:2">>, <<"v:3">>>>]

\* The audio options of the ffmpeg command a run inside the transcode has
\* started: hasAudio is the one its probe delivered.
TranscodeAudio(id) == audioOptions(loc[id].hasAudio)

\* The transcode ends: ffmpeg has written the renditions and the master
\* playlist; clearInterval, resolve, then the animated-thumbnail gate.
HlsEnd(id) ==
    /\ pc[id] = "hls"
    /\ files' = [files EXCEPT ![id] =
                    IF dir[id] THEN @ \cup {masterPlaylist, segmentFiles} ELSE @]
    /\ GateAnimated(id, folderExistsOrExit(id), files'[id], loc[id])
    /\ Silent
    /\ UNCHANGED <<record, dir, tmpThumb, del, cthumb, patch, env>>

\* killCheckInterval: the folder is gone, so command.kill("SIGKILL").
KillCheck(id) ==
    /\ pc[id] = "hls"
    /\ ~dir[id]
    /\ Goto(id, "hlsKilled")
    /\ Silent
    /\ UNCHANGED <<record, dir, files, tmpThumb, del, cthumb, patch, env>>

\* The "error" event of the transcode: resolve when the message names
\* SIGKILL or the folder is absent, reject otherwise. sigkill is TRUE after
\* the kill switch, and is the environment's choice otherwise (a process
\* killed from outside). A failed run may leave segments behind.
HlsErrorResolves(id, sigkill) == sigkill \/ ~dir[id]

HlsError(id) ==
    /\ pc[id] \in {"hls", "hlsKilled"}
    /\ \E sigkill \in BOOLEAN, partial \in BOOLEAN :
        /\ pc[id] = "hlsKilled" => sigkill
        /\ partial => dir[id]
        /\ files' = [files EXCEPT ![id] = IF partial THEN @ \cup {segmentFiles} ELSE @]
        /\ IF HlsErrorResolves(id, sigkill)
           THEN GateAnimated(id, folderExistsOrExit(id), files'[id], loc[id])
           ELSE Catch(id)
    /\ Silent
    /\ UNCHANGED <<record, dir, tmpThumb, del, cthumb, patch, env>>

\* The animated preview ends or fails; then the check before the update.
AnimatedDone(id) ==
    /\ pc[id] = "animated"
    /\ \/ /\ files' = [files EXCEPT ![id] = IF dir[id] THEN @ \cup {animatedThumb} ELSE @]
          /\ GateUpdate(id, folderExistsOrExit(id), files'[id], loc[id])
       \/ /\ Catch(id)
          /\ UNCHANGED files
    /\ Silent
    /\ UNCHANGED <<record, dir, tmpThumb, del, cthumb, patch, env>>

\* await File.exists({_id: id}) of the update condition.
ExistsDone(id) ==
    /\ pc[id] = "exists"
    /\ IF record[id] # NoRec THEN Goto(id, "update") ELSE Finally(id)
    /\ Silent
    /\ UNCHANGED <<record, dir, files, tmpThumb, del, cthumb, patch, env>>

\* updateData as it would be if the update replaced the document by the
\* fields it carries (overwrite) instead of setting them.
updateDataOverwrite(r, l) ==
    [newRecord(r.userId) EXCEPT !.hls = masterPlaylist,
              !.static_thumbnail = staticThumb,
              !.animated_thumbnail = animatedThumb,
              !.original_video = originalVideo,
              !.duration = l.duration,
              !.videoStatus = "uploaded",
              !.custom_thumbnail = IF l.custom THEN customThumb ELSE r.custom_thumbnail]

\* updateData of the run, applied by findByIdAndUpdate (no upsert).
updateData(r, l) ==
    [r EXCEPT !.hls = masterPlaylist,
              !.static_thumbnail = staticThumb,
              !.animated_thumbnail = animatedThumb,
              !.original_video = originalVideo,
              !.duration = l.duration,
              !.videoStatus = "uploaded",
              !.custom_thumbnail = IF l.custom THEN customThumb ELSE @]

\* UpdateDone as it would be with findByIdAndUpdate(id, updateData,
\* {upsert: true}): a missing document is inserted from the update.
UpdateDoneUpsert(id) ==
    /\ pc[id] = "update"
    /\ record' = [record EXCEPT ![id] =
                    updateData(IF @ = NoRec THEN newRecord(Anon) ELSE @, loc[id])]
    /\ Finally(id)
    /\ Silent
    /\ UNCHANGED <<dir, files, tmpThumb, del, cthumb, patch, env>>

UpdateDone(id) ==
    /\ pc[id] = "update"
    /\ record' = [record EXCEPT ![id] =
                    IF @ = NoRec THEN @ ELSE updateData(@, loc[id])]
    /\ Finally(id)
    /\ Silent
    /\ UNCHANGED <<dir, files, tmpThumb, del, cthumb, patch, env>>

\* ErrUpdateDone as it would be if intake awaited the run and answered the
\* uploader with its failure.
ErrUpdateDoneSurfaced(id) ==
    /\ pc[id] = "errUpdate"
    /\ record' = [record EXCEPT ![id] = IF @ = NoRec THEN @ ELSE [@ EXCEPT !.videoStatus = "error"]]
    /\ Finally(id)
    /\ Respond(Reply("postVideos", id, record[id].userId, 500, "Video processing failed",
                     record'[id]))
    /\ UNCHANGED <<dir, files, tmpThumb, del, cthumb, patch, env>>

\* catch: File.findByIdAndUpdate(id, {videoStatus: "error"}).
errorData(r) == [r EXCEPT !.videoStatus = "error"]

ErrUpdateDone(id) ==
    /\ pc[id] = "errUpdate"
    /\ record' = [record EXCEPT ![id] = IF @ = NoRec THEN @ ELSE errorData(@)]
    /\ Finally(id)
    /\ Silent
    /\ UNCHANGED <<dir, files, tmpThumb, del, cthumb, patch, env>>

\* finally: fs.promises.rename(inputPath, originalVideoPath), errors caught.
RenameDone(id) ==
    /\ pc[id] = "rename"
    /\ \E ok \in BOOLEAN :
        /\ ok => dir[id] /\ input[id]
        /\ ~ok => fsBusy > 0 \/ ~dir[id] \/ ~input[id]
        /\ input' = [input EXCEPT ![id] = IF ok THEN FALSE ELSE @]
        /\ files' = [files EXCEPT ![id] = IF ok THEN @ \cup {originalVideo} ELSE @]
    /\ Enter(id, "done", loc[id])
    /\ Silent
    /\ UNCHANGED <<record, dir, tmpThumb, del, cthumb, patch, env>>

\* finally: the one retry of unlinkSync, a second later, errors swallowed.
RetryUnlink(id) ==
    /\ pc[id] = "retryUnlink"
    /\ \E ok \in {TRUE, fsBusy <= 1} :
        input' = [input EXCEPT ![id] = IF ok THEN FALSE ELSE @]
    /\ Enter(id, "done", loc[id])
    /\ Silent
    /\ UNCHANGED <<record, dir, files, tmpThumb, del, cthumb, patch, env>>

createVideo(id) ==
    \/ CheckRecord(id)
    \/ ProbeDone(id)
    \/ SharpCustom(id)
    \/ FrameDone(id)
    \/ ReadJpeg(id)
    \/ SharpStatic(id)
    \/ UnlinkJpeg(id)
    \/ HlsEnd(id)
    \/ KillCheck(id)
    \/ HlsError(id)
    \/ AnimatedDone(id)
    \/ ExistsDone(id)
    \/ UpdateDone(id)
    \/ ErrUpdateDone(id)
    \/ RenameDone(id)
    \/ RetryUnlink(id)

\* createVideo called again for an id whose run has ended, with the same
\* fileObj and with or without a thumbnail; the upload is at its intake path
\* if the earlier run left it there or if it has been put there again.
Reinvoke(id, thumb, upload) ==
    /\ pc[id] = "done"
    /\ pc' = [pc EXCEPT ![id] = "start"]
    /\ loc' = [loc EXCEPT ![id].custom = thumb]
    /\ tmpThumb' = [tmpThumb EXCEPT ![id] = thumb]
    /\ input' = [input EXCEPT ![id] = @ \/ upload]
    /\ Silent
    /\ UNCHANGED <<record, dir, files, del, cthumb, patch, env>>

\* The ownership check of DELETE as it would be if it were left out.
DeleteAllowedAny(r, uid) == TRUE

\* ------------------------------------------------ DELETE /videos/:id
\* The handler after its findById: ownership check, then
\* deleteFolderUntilGone is started and findByIdAndDelete is issued. One
\* DELETE request per id is between its two store calls at a time.
DeleteAllowed(r, uid) == r.userId = uid

DeleteVideo(uid, id) ==
    /\ del[id].db = "none"
    /\ IF ~verifyToken(uid)
       THEN /\ Respond(Reply("delete", id, uid, 401, "Missing token", NoRec))
            /\ UNCHANGED del
       ELSE IF record[id] = NoRec
       THEN /\ Respond(Reply("delete", id, uid, 404, "Video not found", NoRec))
            /\ UNCHANGED del
       ELSE IF ~DeleteAllowed(record[id], uid)
       THEN /\ Respond(Reply("delete", id, uid, 403,
                               "You do not have permission to delete this video", record[id]))
            /\ UNCHANGED del
       ELSE /\ del[id].task \notin {"rm", "wait"}
            /\ del' = [del EXCEPT ![id] = [task |-> "rm", retries |-> 0,
                                           db |-> "pending", uid |-> uid]]
            /\ Silent
    /\ UNCHANGED <<record, dir, files, input, tmpThumb, pc, loc, cthumb, patch, env>>

\* DeleteDb as it would be if the 200 were sent with the record still stored.
DeleteDbUnremoved(id) ==
    /\ del[id].db = "pending"
    /\ Respond(Reply("delete", id, del[id].uid, 200, "", record[id]))
    /\ del' = [del EXCEPT ![id].db = "none", ![id].uid = Anon]
    /\ UNCHANGED <<record, dir, files, input, tmpThumb, pc, loc, cthumb, patch, env>>

\* await File.findByIdAndDelete(id) has removed the record; then the 200.
DeleteDb(id) ==
    /\ del[id].db = "pending"
    /\ record' = [record EXCEPT ![id] = NoRec]
    /\ Respond(Reply("delete", id, del[id].uid, 200, "", record[id]))
    /\ del' = [del EXCEPT ![id].db = "none", ![id].uid = Anon]
    /\ UNCHANGED <<dir, files, input, tmpThumb, pc, loc, cthumb, patch, env>>

\* await File.findByIdAndDelete(id) rejects (the store fails): the catch of
\* the handler answers 500; the record stays, the removal task is running.
DeleteDbFails(id) ==
    /\ del[id].db = "pending"
    /\ Respond(Reply("delete", id, del[id].uid, 500, "Error deleting video", record[id]))
    /\ del' = [del EXCEPT ![id].db = "none", ![id].uid = Anon]
    /\ UNCHANGED <<record, dir, files, input, tmpThumb, pc, loc, cthumb, patch, env>>

\* attemptDelete as it would be without the retries++ of its catch.
attemptDeleteUncounted(id) ==
    /\ del[id].task = "rm"
    /\ \/ /\ dir' = [dir EXCEPT ![id] = FALSE]
          /\ files' = [files EXCEPT ![id] = {}]
          /\ del' = [del EXCEPT ![id].task = "done"]
       \/ /\ dir[id] /\ del[id].retries < fsBusy
          /\ del' = [del EXCEPT ![id].task = "wait"]
          /\ UNCHANGED <<dir, files>>
    /\ Silent
    /\ UNCHANGED <<record, input, tmpThumb, pc, loc, cthumb, patch, env>>

\* attemptDelete: one fs.promises.rm(folderPath, {recursive, force}) ends.
\* It removes the folder, or fails with a retriable code (EBUSY, ENOTEMPTY;
\* part of the content may be gone), or fails with another code.
attemptDelete(id) ==
    /\ del[id].task = "rm"
    /\ \/ /\ dir' = [dir EXCEPT ![id] = FALSE]
          /\ files' = [files EXCEPT ![id] = {}]
          /\ del' = [del EXCEPT ![id].task = "done"]
       \/ /\ dir[id] /\ del[id].retries < fsBusy
          /\ \E fs \in {files[id], {}} : files' = [files EXCEPT ![id] = fs]
          /\ del' = [del EXCEPT ![id].task = "wait", ![id].retries = @ + 1]
          /\ UNCHANGED dir
       \/ /\ dir[id] /\ del[id].retries < fsBusy
          /\ del' = [del EXCEPT ![id].task = "failed"]
          /\ UNCHANGED <<dir, files>>
    /\ Silent
    /\ UNCHANGED <<record, input, tmpThumb, pc, loc, cthumb, patch, env>>

\* retryDelete as it would be if the loop had no bound (while (true)).
retryDeleteUnbounded(id) ==
    /\ del[id].task = "wait"
    /\ del' = [del EXCEPT ![id].task = "rm"]
    /\ Silent
    /\ UNCHANGED <<record, dir, files, input, tmpThumb, pc, loc, cthumb, patch, env>>

\* The delay is over: the while condition retries < maxRetries decides.
retryDelete(id) ==
    /\ del[id].task = "wait"
    /\ del' = [del EXCEPT ![id].task =
                  IF del[id].retries < maxRetries THEN "rm" ELSE "gaveup"]
    /\ Silent
    /\ UNCHANGED <<record, dir, files, input, tmpThumb, pc, loc, cthumb, patch, env>>

deleteFolderUntilGone(id) == attemptDelete(id) \/ retryDelete(id)

\* ------------------------------------------------ PATCH /videos/thumb/custom/:id
PatchThumbCustom(uid, id, hasFile) ==
    /\ IF ~verifyToken(uid)
       THEN /\ Respond(Reply("thumbCustom", id, uid, 401, "Missing token", NoRec))
            /\ UNCHANGED cthumb
       ELSE IF record[id] = NoRec
       THEN /\ Respond(Reply("thumbCustom", id, uid, 404, "Video not found", NoRec))
            /\ UNCHANGED cthumb
       ELSE IF record[id].userId # uid
       THEN /\ Respond(Reply("thumbCustom", id, uid, 403,
                               "Not authorized to modify this video", record[id]))
            /\ UNCHANGED cthumb
       ELSE IF ~hasFile
       THEN /\ Respond(Reply("thumbCustom", id, uid, 400, "No thumbnail file uploaded", record[id]))
            /\ UNCHANGED cthumb
       ELSE /\ cthumb[id] = "idle"
            /\ cthumb' = [cthumb EXCEPT ![id] = "sharp"]
            /\ Respond(Reply("thumbCustom", id, uid, 200, "", record[id]))
    /\ UNCHANGED <<record, dir, files, input, tmpThumb, pc, loc, del, patch, env>>

\* CustomSharp as it would be if a failed write still went on to the update.
CustomSharpUnwritten(id) ==
    /\ cthumb[id] = "sharp"
    /\ cthumb' = [cthumb EXCEPT ![id] = "update"]
    /\ \/ dir[id] /\ files' = [files EXCEPT ![id] = @ \cup {customThumb}]
       \/ UNCHANGED files
    /\ Silent
    /\ UNCHANGED <<record, dir, input, tmpThumb, pc, loc, del, patch, env>>

\* createCustomThumbnail: sharp writes <id>_custom.webp, the temporary file
\* is unlinked; an error is logged and rethrown to the handler's catch.
CustomSharp(id) ==
    /\ cthumb[id] = "sharp"
    /\ \/ /\ dir[id]
          /\ files' = [files EXCEPT ![id] = @ \cup {customThumb}]
          /\ cthumb' = [cthumb EXCEPT ![id] = "update"]
       \/ /\ cthumb' = [cthumb EXCEPT ![id] = "idle"]
          /\ UNCHANGED files
    /\ Silent
    /\ UNCHANGED <<record, dir, input, tmpThumb, pc, loc, del, patch, env>>

\* createCustomThumbnail: findByIdAndUpdate(id, {custom_thumbnail}).
CustomUpdate(id) ==
    /\ cthumb[id] = "update"
    /\ record' = [record EXCEPT ![id] =
                    IF @ = NoRec THEN @ ELSE [@ EXCEPT !.custom_thumbnail = customThumb]]
    /\ cthumb' = [cthumb EXCEPT ![id] = "idle"]
    /\ Silent
    /\ UNCHANGED <<dir, files, input, tmpThumb, pc, loc, del, patch, env>>

createCustomThumbnail(id) == CustomSharp(id) \/ CustomUpdate(id)

\* ------------------------------------------------ PATCH /videos/:id
\* The handler after findById: checks, then findByIdAndUpdate is issued.
PatchVideo(uid, id, body) ==
    /\ patch[id] = NoPatch
    /\ IF ~verifyToken(uid)
       THEN /\ Respond(Reply("patch", id, uid, 401, "Missing token", NoRec))
            /\ UNCHANGED patch
       ELSE IF record[id] = NoRec
       THEN /\ Respond(Reply("patch", id, uid, 404, "Video not found", NoRec))
            /\ UNCHANGED patch
       ELSE IF record[id].userId # uid
       THEN /\ Respond(Reply("patch", id, uid, 403,
                               "Not authorized to modify this video", record[id]))
            /\ UNCHANGED patch
       ELSE /\ patch' = [patch EXCEPT ![id] = [uid |-> uid, body |-> body]]
            /\ Silent
    /\ UNCHANGED <<record, dir, files, input, tmpThumb, pc, loc, del, cthumb, env>>

\* updates as it would be if the edit also reset the processing status.
updatesAndStatus(r, body) ==
    [r EXCEPT !.title = IF body.title # Undefined THEN body.title ELSE @,
              !.description = IF body.description # Undefined THEN body.description ELSE @,
              !.category = IF body.category # Undefined THEN body.category ELSE @,
              !.tags = IF body.tags # Undefined THEN body.tags ELSE @,
              !.videoStatus = "inProgress"]

\* updates as it would be without the tests for undefined.
updatesUnchecked(r, body) ==
    [r EXCEPT !.title = body.title, !.description = body.description,
              !.category = body.category, !.tags = body.tags]

\* updates: only the fields of the body that are not undefined.
updates(r, body) ==
    [r EXCEPT !.title = IF body.title # Undefined THEN body.title ELSE @,
              !.description = IF body.description # Undefined THEN body.description ELSE @,
              !.category = IF body.category # Undefined THEN body.category ELSE @,
              !.tags = IF body.tags # Undefined THEN body.tags ELSE @]

\* findByIdAndUpdate(id, {$set: updates}, {new: true}); res.json(updatedVideo).
PatchDb(id) ==
    /\ patch[id] # NoPatch
    /\ record' = [record EXCEPT ![id] =
                    IF @ = NoRec THEN @ ELSE updates(@, patch[id].body)]
    /\ Respond(ReplyWith("patch", id, patch[id].uid, 200, "", record'[id],
                         "record", NoTok))
    /\ patch' = [patch EXCEPT ![id] = NoPatch]
    /\ UNCHANGED <<dir, files, input, tmpThumb, pc, loc, del, cthumb, env>>

\* ------------------------------------------------ utils/signedUrl
\* Number -> decimal string, as the template literal `${expires}` gives it.
Digit == <<"0", "1", "2", "3", "4", "5", "6", "7", "8", "9">>

RECURSIVE NumToString(_)
NumToString(n) ==
    IF n < 10 THEN <<Digit[n + 1]>>
    ELSE NumToString(n \div 10) \o <<Digit[(n % 10) + 1]>>

\* Number(expires) on strings of decimal digits and other characters: the
\* empty string is 0, a digit string is its value, anything else is NaN.
NaN == -1
DigitValue(c) == CHOOSE d \in 0..9 : Digit[d + 1] = c
IsDigit(c) == \E d \in 1..10 : Digit[d] = c

RECURSIVE DigitsValue(_, _)
DigitsValue(str, n) ==
    IF n = 0 THEN 0 ELSE DigitsValue(str, n - 1) * 10 + DigitValue(str[n])

Number(str) ==
    IF \E i \in 1..Len(str) : ~IsDigit(str[i]) THEN NaN
    ELSE DigitsValue(str, Len(str))

\* HMAC-SHA256 under a key, hex digest: a value fixed by key and message,
\* different for different messages; without the key it cannot be formed.
STREAM_SECRET == "STREAM_SECRET"
Hmac(key, msg) == [key |-> key, msg |-> msg]

\* The signed text `${videoId}:${userId}:${expires}`.
SignedText(videoId, userId, expires) ==
    videoId \o <<":">> \o userId \o <<":">> \o expires

\* generateSignedUrl at time t: the query ?expires=..&signature=..&uid=..
generateSignedUrl(videoId, userId, expiresInMinutes, t) ==
    LET expires == t + (expiresInMinutes * 60 * 1000) IN
    [expires |-> NumToString(expires),
     signature |-> Hmac(STREAM_SECRET, SignedText(videoId, userId, NumToString(expires))),
     uid |-> userId]

\* generateSignedUrl called without expiresInMinutes: the parameter default.
defaultExpiresInMinutes == 10
generateSignedUrlDefault(videoId, userId, t) ==
    generateSignedUrl(videoId, userId, defaultExpiresInMinutes, t)

\* verifySignature as it would be if it signed the parsed expiry time
\* (`${expiryTime}`) instead of the expires string it was given.
verifySignatureParsed(videoId, userId, expires, signature, t) ==
    LET expiryTime == Number(expires) IN
    IF expiryTime = NaN
    THEN [valid |-> FALSE, reason |-> "Invalid expiration format"]
    ELSE IF t > expiryTime
    THEN [valid |-> FALSE, reason |-> "Signed URL expired"]
    ELSE IF signature # Hmac(STREAM_SECRET,
                             SignedText(videoId, userId, NumToString(expiryTime)))
    THEN [valid |-> FALSE, reason |-> "Invalid signature"]
    ELSE [valid |-> TRUE, reason |-> ""]

\* verifySignature as it would be if the signature were compared before
\* the expiry is looked at.
verifySignatureFirst(videoId, userId, expires, signature, t) ==
    LET expiryTime == Number(expires) IN
    IF signature # Hmac(STREAM_SECRET, SignedText(videoId, userId, expires))
    THEN [valid |-> FALSE, reason |-> "Invalid signature"]
    ELSE IF expiryTime = NaN
    THEN [valid |-> FALSE, reason |-> "Invalid expiration format"]
    ELSE IF t > expiryTime
    THEN [valid |-> FALSE, reason |-> "Signed URL expired"]
    ELSE [valid |-> TRUE, reason |-> ""]

\* verifySignature at time t.
verifySignature(videoId, userId, expires, signature, t) ==
    LET expiryTime == Number(expires) IN
    IF expiryTime = NaN
    THEN [valid |-> FALSE, reason |-> "Invalid expiration format"]
    ELSE IF t > expiryTime
    THEN [valid |-> FALSE, reason |-> "Signed URL expired"]
    ELSE IF signature # Hmac(STREAM_SECRET, SignedText(videoId, userId, expires))
    THEN [valid |-> FALSE, reason |-> "Invalid signature"]
    ELSE [valid |-> TRUE, reason |-> ""]

\* verifySignedUrl middleware on the query q of a request for videoId.
verifySignedUrl(q, videoId, t) ==
    IF q.expires = <<>> \/ q.signature = NoSig \/ q.uid = Anon
    THEN [valid |-> FALSE, reason |-> "Missing signature parameters"]
    ELSE verifySignature(videoId, q.uid, q.expires, q.signature, t)

\* The clock.
Tick ==
    /\ now + TickMs <= TickMs * (1 + MaxTicks)
    /\ now' = now + TickMs
    /\ Silent
    /\ UNCHANGED <<record, dir, files, input, tmpThumb, pc, loc, del, cthumb, patch,
                   tok, fsBusy, intake>>

\* Queries a client can present for id: none, the one last issued, that one
\* under another uid, and one with a made-up signature.
Queries(id) ==
    {NoTok}
    \cup (IF tok[id] = NoTok THEN {}
          ELSE {tok[id]} \cup {[tok[id] EXCEPT !.uid = u] : u \in Users})
    \cup {[expires |-> NumToString(now + TickMs), signature |-> Hmac("guess", <<>>), uid |-> u] :
            u \in Uploaders}

\* A handler that reads only: everything but resp stays.
ReadOnly == UNCHANGED <<record, dir, files, input, tmpThumb, pc, loc, del, cthumb,
                        patch, env>>

\* ------------------------------------------------ GET /videos/stream/:id/:file?
FileParams == {"", segmentFiles}

StreamReply(q, id, file) ==
    LET v == verifySignedUrl(q, id, now)
        userId == q.uid
        fileData == record[id]
        filePath == IF file # "" THEN file ELSE fileData.hls
    IN  IF ~v.valid THEN Reply("stream", id, userId, 401, v.reason, NoRec)
        ELSE IF fileData = NoRec \/ fileData.hls = Unset
        THEN Reply("stream", id, userId, 404, "Video not available", fileData)
        ELSE IF fileData.userId # userId
        THEN Reply("stream", id, userId, 403, "Not authorized to view this video", fileData)
        ELSE IF fileData.videoStatus # "uploaded"
        THEN Reply("stream", id, userId, 423, "Video processing not completed yet", fileData)
        ELSE IF filePath \notin files[id]
        THEN Reply("stream", id, userId, 404, "File not found", fileData)
        ELSE ReplyWith("stream", id, userId, 200, "", fileData, filePath, NoTok)

GetStream(q, id, file) ==
    /\ Respond(StreamReply(q, id, file))
    /\ ReadOnly

\* The handler with its paths. A path is the sequence of its parts between
\* slashes. req.params.file is one segment of the URL after decoding, so a
\* %2F in the URL gives it a slash: FilePaths are the values tried, as parts.
VIDEO_PATH == <<"uploads", "videos">>
DirName(id) == id[1]
otherDir == "x"
uploadName == "upload.ext"
FilePaths == {<<>>, <<segmentFiles>>, <<".", segmentFiles>>,
              <<"..", "v", segmentFiles>>, <<"..", otherDir, masterPlaylist>>,
              <<"..", uploadName>>}

\* path.normalize on parts: "." and empty parts go, ".." takes back the part
\* before it (and stays when there is none to take back).
RECURSIVE normalize(_, _)
normalize(done, rest) ==
    IF rest = <<>> THEN done
    ELSE LET part == Head(rest) IN
         IF part \in {".", ""} THEN normalize(done, Tail(rest))
         ELSE IF part = ".." /\ done # <<>> /\ done[Len(done)] # ".."
         THEN normalize(SubSeq(done, 1, Len(done) - 1), Tail(rest))
         ELSE normalize(Append(done, part), Tail(rest))

join(a, b) == normalize(<<>>, a \o b)

\* The regular files under VIDEO_PATH: the assets of each video, an upload
\* still at its intake path, and the assets of a video of another user.
OtherAssets == {VIDEO_PATH \o <<otherDir, masterPlaylist>>}
Disk ==
    UNION {{VIDEO_PATH \o <<DirName(id), f>> : f \in files[id]} : id \in VideoIds}
    \cup {VIDEO_PATH \o <<uploadName>> : id \in {i \in VideoIds : input[i]}}
    \cup OtherAssets

baseDir(id) == join(VIDEO_PATH, <<DirName(id)>>)
streamPath(id, file, hls) == join(baseDir(id), IF file # <<>> THEN file ELSE <<hls>>)

\* The handler with the path it serves as the body of its 200.
StreamFileReply(q, id, file) ==
    LET checks == StreamReply(q, id, masterPlaylist)
        filePath == streamPath(id, file, record[id].hls)
    IN  IF checks.code \in {401, 403, 423} \/ checks.err = "Video not available"
        THEN checks
        ELSE IF filePath \notin Disk
        THEN Reply("streamFile", id, q.uid, 404, "File not found", record[id])
        ELSE ReplyWith("streamFile", id, q.uid, 200, "", record[id], filePath, NoTok)

GetStreamFile(q, id, file) ==
    /\ Respond(StreamFileReply(q, id, file))
    /\ ReadOnly

\* ------------------------------------------------ thumbnails
\* The body shared by GET /videos/thumb/signed/:id and /thumb/static/:id.
ThumbReply(h, userId, id) ==
    LET file == record[id] IN
    IF file = NoRec \/ file.videoStatus # "uploaded"
    THEN Reply(h, id, userId, 404, "Thumbnail not available", file)
    ELSE IF file.userId # userId
    THEN Reply(h, id, userId, 403, "Not authorized to view this video", file)
    ELSE IF customThumb \in files[id]
    THEN ReplyWith(h, id, userId, 200, "", file, customThumb, NoTok)
    ELSE IF file.static_thumbnail = Unset
    THEN Reply(h, id, userId, 500, "Static thumbnail missing unexpectedly", file)
    ELSE IF file.static_thumbnail \in files[id]
    THEN ReplyWith(h, id, userId, 200, "", file, file.static_thumbnail, NoTok)
    ELSE Reply(h, id, userId, 404, "Thumbnail file not found", file)

GetThumbSigned(q, id) ==
    /\ LET v == verifySignedUrl(q, id, now) IN
        Respond(IF ~v.valid THEN Reply("thumbSigned", id, q.uid, 401, v.reason, NoRec)
                ELSE ThumbReply("thumbSigned", q.uid, id))
    /\ ReadOnly

GetThumbStatic(uid, id) ==
    /\ Respond(IF ~verifyToken(uid) THEN Reply("thumbStatic", id, uid, 401, "Missing token", NoRec)
               ELSE ThumbReply("thumbStatic", uid, id))
    /\ ReadOnly

AnimatedReply(userId, id) ==
    LET file == record[id] IN
    IF file = NoRec \/ file.videoStatus # "uploaded"
    THEN Reply("thumbAnimated", id, userId, 404, "Animated thumbnail not available yet", file)
    ELSE IF file.userId # userId
    THEN Reply("thumbAnimated", id, userId, 403, "Not authorized to view this video", file)
    ELSE IF file.animated_thumbnail = Unset
    THEN Reply("thumbAnimated", id, userId, 500, "Animated thumbnail missing unexpectedly", file)
    ELSE IF file.animated_thumbnail \notin files[id]
    THEN Reply("thumbAnimated", id, userId, 404, "Animated thumbnail not found", file)
    ELSE ReplyWith("thumbAnimated", id, userId, 200, "", file, file.animated_thumbnail, NoTok)

GetThumbAnimated(uid, id) ==
    /\ Respond(IF ~verifyToken(uid) THEN Reply("thumbAnimated", id, uid, 401, "Missing token", NoRec)
               ELSE AnimatedReply(uid, id))
    /\ ReadOnly

\* ------------------------------------------------ GET /videos/download/:id
DownloadReply(userId, id) ==
    LET video == record[id] IN
    IF video = NoRec \/ video.original_video = Unset
    THEN Reply("download", id, userId, 404, "Video not found", video)
    ELSE IF video.userId # userId
    THEN Reply("download", id, userId, 403, "Not authorized to download this video", video)
    ELSE IF video.original_video \notin files[id]
    THEN Reply("download", id, userId, 404, "Video file not found", video)
    ELSE ReplyWith("download", id, userId, 200, "", video, video.original_video, NoTok)

GetDownload(uid, id) ==
    /\ Respond(IF ~verifyToken(uid) THEN Reply("download", id, uid, 401, "Missing token", NoRec)
               ELSE DownloadReply(uid, id))
    /\ ReadOnly

\* The Range headers tried: none, bytes=s-e and bytes=s- for s, e up to
\* MaxSize; the original file has 1..MaxSize bytes.
MaxSize == 12
NoRange == <<>>
BytesEq == <<"b", "y", "t", "e", "s", "=">>
RangeHeader(s, e) == BytesEq \o NumToString(s) \o <<"-">> \o NumToString(e)
OpenRangeHeader(s) == BytesEq \o NumToString(s) \o <<"-">>
RangeHeaders ==
    {NoRange} \cup {RangeHeader(s, e) : s \in 0..MaxSize, e \in 0..MaxSize}
              \cup {OpenRangeHeader(s) : s \in 0..MaxSize}

\* range.replace(/bytes=/, ""): the first occurrence of bytes= is taken out.
StripBytes(range) ==
    LET at == {i \in 1..(Len(range) - 5) : SubSeq(range, i, i + 5) = BytesEq} IN
    IF at = {} THEN range
    ELSE LET i == CHOOSE k \in at : \A j \in at : k <= j IN
         SubSeq(range, 1, i - 1) \o SubSeq(range, i + 6, Len(range))

\* str.split("-"): parts[0] and parts[1] ("" stands for a missing parts[1],
\* which the code tests for truth just like the empty string).
DashesAt(str) == {i \in 1..Len(str) : str[i] = "-"}
FirstFrom(S, n) == CHOOSE k \in S : k >= n /\ \A j \in S : j >= n => k <= j
Part0(str) ==
    IF DashesAt(str) = {} THEN str ELSE SubSeq(str, 1, FirstFrom(DashesAt(str), 1) - 1)
Part1(str) ==
    IF DashesAt(str) = {} THEN <<>>
    ELSE LET d == FirstFrom(DashesAt(str), 1)
             later == {i \in DashesAt(str) : i > d}
         IN  SubSeq(str, d + 1, IF later = {} THEN Len(str) ELSE FirstFrom(later, d + 1) - 1)

\* parseInt(str, 10) on strings without sign or blanks: the value of the
\* leading digits, NaN when there is none.
parseInt(str) ==
    LET stop == {i \in 1..Len(str) : ~IsDigit(str[i])}
        n == IF stop = {} THEN Len(str) ELSE FirstFrom(stop, 1) - 1
    IN  IF n = 0 THEN NaN ELSE DigitsValue(str, n)

\* `${n}` of a number that may be NaN.
Show(n) == IF n = NaN THEN <<"N", "a", "N">> ELSE NumToString(n)

\* Content-Range: `bytes ${start}-${end}/${fileSize}`.
ContentRange(start, end, fileSize) ==
    <<"b", "y", "t", "e", "s", " ">> \o Show(start) \o <<"-">> \o Show(end)
        \o <<"/">> \o Show(fileSize)

\* ServeReply as it would be with chunksize = end - start.
ServeReplyExclusive(fileSize, range) ==
    IF range # NoRange
    THEN LET parts0 == Part0(StripBytes(range))
             parts1 == Part1(StripBytes(range))
             start == parseInt(parts0)
             end == IF parts1 # <<>> THEN parseInt(parts1) ELSE fileSize - 1
             chunksize == end - start
             last == IF end < fileSize THEN end ELSE fileSize - 1
         IN  IF start = NaN \/ end = NaN \/ start > end
             THEN [NoResp EXCEPT !.h = "serve", !.code = 500, !.err = "Error during download",
                                 !.dl = [NoDl EXCEPT !.req = range, !.size = fileSize]]
             ELSE [NoResp EXCEPT !.h = "serve", !.code = 206,
                                 !.dl = [req |-> range, size |-> fileSize,
                                         range |-> ContentRange(start, end, fileSize),
                                         length |-> chunksize,
                                         first |-> start, last |-> last]]
    ELSE [NoResp EXCEPT !.h = "serve", !.code = 200,
                        !.dl = [req |-> range, size |-> fileSize, range |-> <<>>,
                                length |-> fileSize, first |-> 0, last |-> fileSize - 1]]

\* The download handler from fs.statSync on: the head it writes and the
\* bytes fs.createReadStream(videoPath, {start, end}) delivers (from start to
\* end, at most to the end of the file). createReadStream throws on a start
\* or end that is not a number and on start > end: the catch answers 500.
ServeReply(fileSize, range) ==
    IF range # NoRange
    THEN LET parts0 == Part0(StripBytes(range))
             parts1 == Part1(StripBytes(range))
             start == parseInt(parts0)
             end == IF parts1 # <<>> THEN parseInt(parts1) ELSE fileSize - 1
             chunksize == (end - start) + 1
             last == IF end < fileSize THEN end ELSE fileSize - 1
         IN  IF start = NaN \/ end = NaN \/ start > end
             THEN [NoResp EXCEPT !.h = "serve", !.code = 500, !.err = "Error during download",
                                 !.dl = [NoDl EXCEPT !.req = range, !.size = fileSize]]
             ELSE [NoResp EXCEPT !.h = "serve", !.code = 206,
                                 !.dl = [req |-> range, size |-> fileSize,
                                         range |-> ContentRange(start, end, fileSize),
                                         length |-> chunksize,
                                         first |-> start, last |-> last]]
    ELSE [NoResp EXCEPT !.h = "serve", !.code = 200,
                        !.dl = [req |-> range, size |-> fileSize, range |-> <<>>,
                                length |-> fileSize, first |-> 0, last |-> fileSize - 1]]

ServeFile(fileSize, range) ==
    /\ Respond(ServeReply(fileSize, range))
    /\ ReadOnly

InitServe == InitCalm

NextServe ==
    \/ \E fileSize \in 1..MaxSize, range \in RangeHeaders : ServeFile(fileSize, range)
    \/ Sent

SpecServe == InitServe /\ [][NextServe]_vars

\* ------------------------------------------------ GET /videos/:id, status, duration
\* The three handlers share their checks; what differs is what they send.
InfoReply(h, userId, id) ==
    LET file == record[id] IN
    IF file = NoRec THEN Reply(h, id, userId, 404, "Video not found", file)
    ELSE IF file.userId # userId
    THEN Reply(h, id, userId, 403, "Not authorized to view this video", file)
    ELSE ReplyWith(h, id, userId, 200, "", file, h, NoTok)

GetVideo(uid, id) ==
    /\ Respond(IF ~verifyToken(uid) THEN Reply("record", id, uid, 401, "Missing token", NoRec)
               ELSE InfoReply("record", uid, id))
    /\ ReadOnly

GetStatus(uid, id) ==
    /\ Respond(IF ~verifyToken(uid) THEN Reply("videoStatus", id, uid, 401, "Missing token", NoRec)
               ELSE InfoReply("videoStatus", uid, id))
    /\ ReadOnly

GetDuration(uid, id) ==
    /\ Respond(IF ~verifyToken(uid) THEN Reply("duration", id, uid, 401, "Missing token", NoRec)
               ELSE InfoReply("duration", uid, id))
    /\ ReadOnly

\* ------------------------------------------------ POST /videos/:id/signed-url
\* SignedUrlReply as it would be without its videoStatus check.
SignedUrlReplyEarly(userId, videoId, t) ==
    LET fileData == record[videoId] IN
    IF fileData = NoRec
    THEN Reply("signedUrl", videoId, userId, 404, "Video not found", fileData)
    ELSE IF fileData.userId # userId
    THEN Reply("signedUrl", videoId, userId, 403, "Not authorized to access this video",
               fileData)
    ELSE ReplyWith("signedUrl", videoId, userId, 200, "", fileData, "signedParams",
                   generateSignedUrl(videoId, userId, 15, t))

SignedUrlReply(userId, videoId, t) ==
    LET fileData == record[videoId] IN
    IF fileData = NoRec
    THEN Reply("signedUrl", videoId, userId, 404, "Video not found", fileData)
    ELSE IF fileData.userId # userId
    THEN Reply("signedUrl", videoId, userId, 403, "Not authorized to access this video",
               fileData)
    ELSE IF fileData.videoStatus # "uploaded"
    THEN Reply("signedUrl", videoId, userId, 423, "Video processing not completed yet",
               fileData)
    ELSE ReplyWith("signedUrl", videoId, userId, 200, "", fileData, "signedParams",
                   generateSignedUrl(videoId, userId, 15, t))

\* expiresAt of the 200 of the signed-url handler, sent at time t:
\* Date.now() + (10 * 60 * 1000).
expiresAt(t) == t + (10 * 60 * 1000)

\* The handler answers and the client keeps the signed query for later use.
Issue(uid, id, reply) ==
    /\ Respond(reply)
    /\ tok' = IF reply.code = 200 THEN [tok EXCEPT ![id] = reply.tok] ELSE tok
    /\ UNCHANGED <<record, dir, files, input, tmpThumb, pc, loc, del, cthumb, patch,
                   now, fsBusy, intake>>

PostSignedUrl(uid, id) ==
    Issue(uid, id, IF ~verifyToken(uid)
                   THEN Reply("signedUrl", id, uid, 401, "Missing token", NoRec)
                   ELSE SignedUrlReply(uid, id, now))

\* RefreshReply as it would be if it also looked for the manifest on disk.
RefreshReplyAssets(userId, videoId, t) ==
    LET fileData == record[videoId] IN
    IF fileData = NoRec
    THEN Reply("refreshToken", videoId, userId, 404, "Video not found", fileData)
    ELSE IF fileData.userId # userId
    THEN Reply("refreshToken", videoId, userId, 403, "Not authorized", fileData)
    ELSE IF fileData.videoStatus # "uploaded"
    THEN Reply("refreshToken", videoId, userId, 423, "Video not ready", fileData)
    ELSE IF masterPlaylist \notin files[videoId]
    THEN Reply("refreshToken", videoId, userId, 404, "File not found", fileData)
    ELSE ReplyWith("refreshToken", videoId, userId, 200, "", fileData, "signedParams",
                   generateSignedUrl(videoId, userId, 15, t))

\* ------------------------------------------------ POST /videos/:id/refresh-token
RefreshReply(userId, videoId, t) ==
    LET fileData == record[videoId] IN
    IF fileData = NoRec
    THEN Reply("refreshToken", videoId, userId, 404, "Video not found", fileData)
    ELSE IF fileData.userId # userId
    THEN Reply("refreshToken", videoId, userId, 403, "Not authorized", fileData)
    ELSE IF fileData.videoStatus # "uploaded"
    THEN Reply("refreshToken", videoId, userId, 423, "Video not ready", fileData)
    ELSE ReplyWith("refreshToken", videoId, userId, 200, "", fileData, "signedParams",
                   generateSignedUrl(videoId, userId, 15, t))

PostRefreshToken(uid, id) ==
    Issue(uid, id, IF ~verifyToken(uid)
                   THEN Reply("refreshToken", id, uid, 401, "Missing token", NoRec)
                   ELSE RefreshReply(uid, id, now))

\* ------------------------------------------------ the signed-URL functions alone
\* Ids and subjects (some hold the separator of the signed text) and the
\* lifetimes asked for: the default of generateSignedUrl and the handlers'.
SigIds == {<<"v">>, <<"v", ":", "u">>}
SigUsers == {<<"u">>, <<"w">>, <<"u", ":", "w">>}
Ttls == {10, 15}

InitSig == InitStore /\ fsBusy = MaxBusy /\ tok = [id \in SigIds |-> NoTok]

\* A client has a query signed for (videoId, userId) and keeps it.
SignUrl(videoId, userId, expiresInMinutes) ==
    /\ tok' = [tok EXCEPT ![videoId] =
                  generateSignedUrl(videoId, userId, expiresInMinutes, now)]
    /\ Respond(ReplyWith("sign", videoId, userId, 200, "", NoRec, "", tok'[videoId]))
    /\ UNCHANGED <<record, dir, files, input, tmpThumb, pc, loc, del, cthumb, patch,
                   now, fsBusy, intake>>

\* A query is signed for (videoId, userId) with no lifetime given.
SignUrlDefault(videoId, userId) ==
    /\ tok' = [tok EXCEPT ![videoId] = generateSignedUrlDefault(videoId, userId, now)]
    /\ Respond(ReplyWith("signDefault", videoId, userId, 200, "", NoRec, "", tok'[videoId]))
    /\ UNCHANGED <<record, dir, files, input, tmpThumb, pc, loc, del, cthumb, patch,
                   now, fsBusy, intake>>

\* What a client can send as expires in place of e: e itself, e with a
\* leading zero, e with a letter appended, a later time, nothing.
Expires(e) ==
    {e, <<"0">> \o e, e \o <<"z">>, <<>>}
    \cup (IF Number(e) = NaN THEN {} ELSE {NumToString(Number(e) + TickMs)})

\* The queries a client can make up from the signed queries it holds.
SigQueries ==
    {NoTok} \cup
    UNION {{[expires |-> e, signature |-> sg, uid |-> u] :
                e \in Expires(tok[i].expires),
                sg \in {tok[i].signature, Hmac("guess", <<>>)},
                u \in SigUsers} : i \in {j \in SigIds : tok[j] # NoTok}}

\* A request for videoId passes through verifySignedUrl with the query q.
VerifyUrl(videoId, q) ==
    /\ LET v == verifySignedUrl(q, videoId, now) IN
        Respond(ReplyWith("verify", videoId, q.uid, IF v.valid THEN 200 ELSE 401,
                          v.reason, NoRec, "", q))
    /\ ReadOnly

NextSig ==
    \/ \E videoId \in SigIds, userId \in SigUsers, m \in Ttls : SignUrl(videoId, userId, m)
    \/ \E videoId \in SigIds, userId \in SigUsers : SignUrlDefault(videoId, userId)
    \/ \E videoId \in SigIds : \E q \in SigQueries : VerifyUrl(videoId, q)
    \/ Tick
    \/ Sent

SpecSig == InitSig /\ [][NextSig]_vars

\* Upload, the pipeline and deletion.
Next ==
    \/ \E uid \in Uploaders, id \in VideoIds, thumb \in BOOLEAN : PostVideos(uid, id, thumb)
    \/ \E id \in VideoIds : createVideo(id)
    \/ \E uid \in Users \cup {Anon}, id \in VideoIds : DeleteVideo(uid, id)
    \/ \E id \in VideoIds : DeleteDb(id)
    \/ \E id \in VideoIds : deleteFolderUntilGone(id)
    \/ Sent

Spec == Init /\ [][Next]_vars

\* Upload, the pipeline and deletion with the uploads that intake refuses.
NextIntake ==
    \/ Next
    \/ \E uid \in Uploaders \cup {Anon}, hasVideo \in BOOLEAN, thumbSize \in ThumbSizes :
            PostVideosInvalid(uid, hasVideo, thumbSize)

SpecIntake == Init /\ [][NextIntake]_vars

\* Upload, the pipeline and deletion with createVideo run again on an id.
NextRerun ==
    \/ Next
    \/ \E id \in VideoIds, thumb \in BOOLEAN, upload \in BOOLEAN : Reinvoke(id, thumb, upload)

SpecRerun == InitCalm /\ [][NextRerun]_vars

\* Upload, the pipeline and deletion on a store whose calls can fail.
NextFault ==
    \/ Next
    \/ \E id \in VideoIds : DeleteDbFails(id)
    \/ \E uid \in Uploaders \cup {Anon}, hasVideo \in BOOLEAN, thumbSize \in ThumbSizes :
            PostVideosInvalid(uid, hasVideo, thumbSize)
    \/ \E uid \in Uploaders, thumb \in BOOLEAN : PostVideosInsertFails(uid, thumb)

SpecFault == InitCalm /\ [][NextFault]_vars

\* The event loop runs every callback that is ready: a suspended run is
\* resumed when its await settles, a removal attempt ends, a delay elapses.
SpecLive ==
    /\ Spec
    /\ \A id \in VideoIds : WF_vars(createVideo(id)) /\ WF_vars(deleteFolderUntilGone(id))

Requesters == Users \cup {Anon}

\* Upload, the pipeline and deletion with the handlers that write to a
\* record (metadata edit, custom-thumbnail replacement) and the status poll.
NextEdit ==
    \/ Next
    \/ \E uid \in Requesters, id \in VideoIds, hasFile \in BOOLEAN :
            PatchThumbCustom(uid, id, hasFile)
    \/ \E id \in VideoIds : createCustomThumbnail(id)
    \/ \E uid \in Requesters, id \in VideoIds, body \in Bodies : PatchVideo(uid, id, body)
    \/ \E id \in VideoIds : PatchDb(id)
    \/ \E uid \in Requesters, id \in VideoIds : GetStatus(uid, id)

SpecEdit == InitCalm /\ [][NextEdit]_vars

\* Upload, the pipeline and deletion with the handlers that read a record
\* or its assets and the ones that issue signed queries.
NextHttp ==
    \/ Next
    \/ \E id \in VideoIds : \E q \in Queries(id), file \in FileParams : GetStream(q, id, file)
    \/ \E id \in VideoIds : \E q \in Queries(id) : GetThumbSigned(q, id)
    \/ \E uid \in Requesters, id \in VideoIds : GetThumbStatic(uid, id)
    \/ \E uid \in Requesters, id \in VideoIds : GetThumbAnimated(uid, id)
    \/ \E uid \in Requesters, id \in VideoIds : GetDownload(uid, id)
    \/ \E uid \in Requesters, id \in VideoIds : GetVideo(uid, id)
    \/ \E uid \in Requesters, id \in VideoIds : GetStatus(uid, id)
    \/ \E uid \in Requesters, id \in VideoIds : GetDuration(uid, id)
    \/ \E uid \in Requesters, id \in VideoIds : PostSignedUrl(uid, id)
    \/ \E uid \in Requesters, id \in VideoIds : PostRefreshToken(uid, id)

SpecHttp == InitCalm /\ [][NextHttp]_vars

\* Upload, the pipeline and deletion with the issue of signed queries and
\* the stream handler with its file parameter.
NextStream ==
    \/ Next
    \/ \E uid \in Requesters, id \in VideoIds : PostSignedUrl(uid, id)
    \/ \E id \in VideoIds : \E q \in Queries(id), file \in FilePaths : GetStreamFile(q, id, file)

SpecStream == InitCalm /\ [][NextStream]_vars

\* Upload, the pipeline and deletion with metadata edits of every shape:
\* each of title, description, category, tags given or left out.
AllBodies == [title : {"t", Undefined}, description : {"d", Undefined},
              category : {"c", Undefined}, tags : {"g", Undefined}]

NextPatch ==
    \/ Next
    \/ \E uid \in Requesters, id \in VideoIds, body \in AllBodies : PatchVideo(uid, id, body)
    \/ \E id \in VideoIds : PatchDb(id)

SpecPatch == InitCalm /\ [][NextPatch]_vars

\* Every handler of routes/videos with the pipeline and deletion.
NextAll == NextEdit \/ NextHttp

SpecAll == InitCalm /\ [][NextAll]_vars

\* ================================================================ properties
\* No deletion has been asked for id, and its record is in the store.
NotDeleted(id) ==
    record[id] # NoRec /\ del[id].task = "idle" /\ del[id].db = "none"

\* C1: the status of a record changes only from inProgress to uploaded or
\* from inProgress to error; no pipeline step, metadata edit, custom-thumbnail
\* replacement or status poll changes a status that is uploaded or error.
StatusStep(id) ==
    (record[id] # NoRec /\ record'[id] # NoRec) =>
        \/ record'[id].videoStatus = record[id].videoStatus
        \/ /\ record[id].videoStatus = "inProgress"
           /\ record'[id].videoStatus \in {"uploaded", "error"}

StatusOnlyAdvances == [][\A id \in VideoIds : StatusStep(id)]_vars

\* An uploaded record that was edited and given a new custom thumbnail, its
\* status just polled by the owner.
StatusKeptAfterEdits ==
    \E id \in VideoIds :
        /\ record[id] # NoRec
        /\ record[id].videoStatus = "uploaded"
        /\ record[id].title = "t"
        /\ record[id].custom_thumbnail = customThumb
        /\ resp.h = "videoStatus" /\ resp.code = 200 /\ resp.seen = "uploaded"

\* C2: for every record in the store and each of its asset filename fields
\* (original, manifest, static, animated and custom thumbnail), a field that
\* is set names a file that is present in the record's asset directory.
AssetFields == {"original_video", "hls", "static_thumbnail", "animated_thumbnail",
                "custom_thumbnail"}

FieldsNameFiles ==
    \A id \in VideoIds : record[id] # NoRec =>
        \A f \in AssetFields :
            record[id][f] # Unset => dir[id] /\ record[id][f] \in files[id]

\* C3: when the probe or a codec invocation of a run fails and the video has
\* not been deleted, the run goes on to set the status to error (from where
\* the finally block disposes of the original file).
FailableSteps == {"probe", "sharpCustom", "frame", "sharpStatic", "hls", "animated"}
AfterFailure == {"errUpdate", "rename", "retryUnlink", "done"}

FailureSetsError ==
    [][\A id \in VideoIds :
        (NotDeleted(id) /\ pc[id] \in FailableSteps /\ pc'[id] \in AfterFailure)
            => pc'[id] = "errUpdate"]_vars

\* C4: a response to a requester who is not the owner of the record carries
\* no record data, asset or signed query, and a deletion, metadata edit or
\* custom-thumbnail replacement is under way only for the owner.
RespOwnerOnly ==
    (resp.h # "none" /\ resp.owner # Anon /\ resp.uid # resp.owner) =>
        resp.code # 200 /\ resp.body = "" /\ resp.tok = NoTok

WritesOwnerOnly ==
    \A id \in VideoIds : record[id] # NoRec =>
        /\ del[id].db = "pending" => del[id].uid = record[id].userId
        /\ patch[id] # NoPatch => patch[id].uid = record[id].userId

CustomThumbOwnerOnly ==
    \A id \in VideoIds :
        (cthumb[id] = "idle" /\ cthumb'[id] = "sharp") =>
            resp'.code = 200 /\ resp'.uid = record[id].userId

Signed(videoId, q) ==
    q.signature = Hmac(STREAM_SECRET, SignedText(videoId, q.uid, q.expires))

Fresh(q, t) == Number(q.expires) # NaN /\ t <= Number(q.expires)

VerifyExact ==
    /\ resp.h = "verify" =>
            (resp.code = 200 <=> Signed(resp.id, resp.tok) /\ Fresh(resp.tok, now))
    /\ resp.h = "sign" =>
            verifySignature(resp.id, resp.uid, resp.tok.expires, resp.tok.signature,
                            now).valid
    /\ \A i \in SigIds : tok[i] # NoTok =>
        LET q == tok[i]
            valid(id, u, e) == verifySignature(id, u, e, q.signature, now).valid
        IN  /\ valid(i, q.uid, q.expires) <=> now <= Number(q.expires)
            /\ \A j \in SigIds \ {i} : ~valid(j, q.uid, q.expires)
            /\ \A u \in SigUsers \ {q.uid} : ~valid(i, u, q.expires)
            /\ \A e \in Expires(q.expires) \ {q.expires} : ~valid(i, q.uid, e)

\* A query with the right signature is refused because its time has passed.
SignedButExpired ==
    /\ resp.h = "verify" /\ resp.code = 401 /\ resp.err = "Signed URL expired"
    /\ Signed(resp.id, resp.tok)

\* C6: a deletion accepted while the run is inside the transcode leads to
\* the asset directory being gone and the run being over (with it the
\* transcode process).
DeletedMidTranscode(id) ==
    pc[id] = "hls" /\ del[id].task = "rm" /\ del[id].retries = 0

DeleteMidTranscodeCleans ==
    \A id \in VideoIds : DeletedMidTranscode(id) ~> (~dir[id] /\ pc[id] = "done")

\* C6 as the code has it: the run is over, and the asset directory is gone
\* unless deleteFolderUntilGone has stopped trying (retries used up, or an
\* error it does not retry).
DeleteMidTranscodeEnds ==
    \A id \in VideoIds :
        DeletedMidTranscode(id) ~>
            (pc[id] = "done" /\ (~dir[id] \/ del[id].task \in {"gaveup", "failed"}))

\* The kill switch has found the directory removed under the transcode.
TranscodeKilled ==
    \E id \in VideoIds : pc[id] = "hlsKilled" /\ ~dir[id] /\ del[id].task = "done"

\* C7: a run that has ended for a record that was not deleted leaves the
\* record's status uploaded or error.
CompletedRunSettled ==
    \A id \in VideoIds :
        (pc[id] = "done" /\ NotDeleted(id)) =>
            record[id].videoStatus \in {"uploaded", "error"}

\* C8: the status is not set to error for a run whose asset directory a
\* deletion has removed.
DeletionNeverError ==
    [][\A id \in VideoIds :
        (/\ record[id] # NoRec /\ record'[id] # NoRec
         /\ record[id].videoStatus # "error"
         /\ record'[id].videoStatus = "error") => dir[id]]_vars

\* C9: the stream, thumbnail and signed-URL handlers serve a manifest, a
\* segment, a thumbnail or a signed query only for a record whose status is
\* uploaded.
DerivedHandlers == {"stream", "thumbSigned", "thumbStatic", "thumbAnimated", "signedUrl"}

AssetHandlers == {"stream", "thumbSigned", "thumbStatic", "thumbAnimated"}

NotReadyDistinct ==
    (/\ resp.h \in AssetHandlers
     /\ resp.owner # Anon /\ resp.uid = resp.owner
     /\ resp.seen = "inProgress") => resp.code # 404

\* C11: a 200 of the delete handler is sent only when the record is out of
\* the store, and the handler can send it whatever the state of the folder
\* removal (running, waiting to retry, stopped): it does not wait for it.
DeleteAnswersAfterRecord ==
    /\ (resp.h = "delete" /\ resp.code = 200) => record[resp.id] = NoRec
    /\ \A id \in VideoIds :
            (del[id].db = "pending" /\ resp = NoResp) => ENABLED DeleteDb(id)

\* The 200 of a delete is out while the removal of the folder waits to retry.
DeletedWhileFolderStays ==
    /\ resp.h = "delete" /\ resp.code = 200
    /\ \E id \in VideoIds : id = resp.id /\ dir[id] /\ del[id].task = "wait"

\* C12: in a delete, the ownership check comes first, then the record is
\* removed, and a removal of the asset directory is started (its first
\* fs.promises.rm issued) only after that: while a removal is running or has
\* run, the record is out of the store.
RecordBeforeFolder ==
    \A id \in VideoIds :
        /\ (del[id].db = "pending" /\ record[id] # NoRec) => del[id].uid = record[id].userId
        /\ del[id].task # "idle" => record[id] = NoRec

\* C13: a signed query issued with no lifetime given expires 15 minutes
\* after the time of issue.
DefaultTtlFifteen ==
    resp.h = "signDefault" => Number(resp.tok.expires) = now + 15 * 60 * 1000

\* C14: for an original of size total, a Range bytes=s-e with
\* 0 <= s <= e < total is answered 206 with Content-Range "bytes s-e/total",
\* Content-Length e-s+1 and exactly the bytes s..e; bytes=s- ends at
\* total-1; no Range header is answered 200 with Content-Length total and
\* the whole file.
Streamed(d) == IF d.last < d.first THEN 0 ELSE d.last - d.first + 1

RangeServed ==
    resp.h = "serve" =>
        LET d == resp.dl total == resp.dl.size IN
        /\ \A s \in 0..MaxSize, e \in 0..MaxSize :
            (d.req = RangeHeader(s, e) /\ s <= e /\ e < total) =>
                /\ resp.code = 206
                /\ d.range = <<"b", "y", "t", "e", "s", " ">> \o NumToString(s) \o <<"-">> \o NumToString(e)
                                \o <<"/">> \o NumToString(total)
                /\ d.length = e - s + 1
                /\ d.first = s /\ d.last = e /\ Streamed(d) = e - s + 1
        /\ \A s \in 0..MaxSize :
            (d.req = OpenRangeHeader(s) /\ s < total) =>
                /\ resp.code = 206
                /\ d.range = <<"b", "y", "t", "e", "s", " ">> \o NumToString(s) \o <<"-">>
                                \o NumToString(total - 1) \o <<"/">> \o NumToString(total)
                /\ d.length = total - s /\ Streamed(d) = total - s
        /\ d.req = NoRange =>
                resp.code = 200 /\ d.length = total /\ Streamed(d) = total

\* A part of two-digit offsets out of a file of two-digit size was served.
TwoDigitRangeServed ==
    /\ resp.h = "serve" /\ resp.code = 206
    /\ resp.dl.req = RangeHeader(10, 11) /\ resp.dl.size = 12
    /\ resp.dl.length = 2

\* C15: intake answers an upload it accepts with 200 and the record it has
\* just created: status inProgress, no asset filename set, the run started but not awaited (it is
\* at its first await); and no step of a run sends a response, so no outcome
\* of the pipeline reaches the uploader.
IntakeReply ==
    (resp.h = "postVideos" /\ resp.id # Anon) =>
        /\ resp.code = 200 /\ resp.body = "record" /\ resp.seen = "inProgress"
        /\ record[resp.id].videoStatus = "inProgress"
        /\ \A f \in AssetFields : record[resp.id][f] = Unset
        /\ pc[resp.id] = "start"

RunIsSilent ==
    \A id \in VideoIds : (pc[id] # "none" /\ pc'[id] # pc[id]) => resp' = NoResp

IntakeDetached == []IntakeReply /\ [][RunIsSilent]_vars

\* An upload with a thumbnail has been answered; its run has yet to take
\* its first step.
UploadAnswered ==
    /\ resp.h = "postVideos" /\ resp.code = 200
    /\ \E id \in VideoIds : id = resp.id /\ pc[id] = "start" /\ tmpThumb[id]

\* C16: a step in which intake refuses a request for a validation error
\* (400 no video file, 413 thumbnail over 5 MB) creates no record and starts
\* no run: the store, the runs and the asset directories are as before.
RefusalCreatesNothing ==
    [][(resp'.h = "postVideos" /\ resp'.code \in {400, 413})
            => UNCHANGED <<record, pc, loc, dir, files>>]_vars

\* An upload was refused for its thumbnail while the store holds nothing.
ThumbnailRefused ==
    /\ resp.h = "postVideos" /\ resp.code = 413
    /\ \A id \in VideoIds : record[id] = NoRec /\ pc[id] = "none"

\* C17: a metadata edit changes only title, description, category and tags
\* of the record, and of those only the ones the request carries; userId,
\* videoStatus, duration and the asset filename fields stay as they are.
MetaFields == {"title", "description", "category", "tags"}

EditFrame(id) ==
    /\ (patch[id] = NoPatch /\ patch'[id] # NoPatch) => record'[id] = record[id]
    /\ (patch[id] # NoPatch /\ patch'[id] = NoPatch /\ record[id] # NoRec) =>
        /\ record'[id] # NoRec
        /\ \A f \in (DOMAIN record[id]) \ MetaFields : record'[id][f] = record[id][f]
        /\ \A f \in MetaFields :
            record'[id][f] = IF patch[id].body[f] = Undefined THEN record[id][f]
                             ELSE patch[id].body[f]

EditChangesOnlyMeta == [][\A id \in VideoIds : EditFrame(id)]_vars

\* An edit that carried a title and tags only was applied to an uploaded
\* record whose description had been set before.
PartialEditApplied ==
    /\ resp.h = "patch" /\ resp.code = 200 /\ resp.seen = "uploaded"
    /\ \E id \in VideoIds :
        /\ id = resp.id /\ record[id] # NoRec
        /\ record[id].title = "t" /\ record[id].tags = "g"
        /\ record[id].description = "d" /\ record[id].category = ""
        /\ record[id].hls = masterPlaylist

\* C18: a custom-thumbnail replacement first writes ID_custom.webp into the
\* asset directory (the temporary source is unlinked in the same step) and
\* sets custom_thumbnail in a later step; that step changes no other field
\* of the record, and apart from the pipeline's own update nothing else sets
\* custom_thumbnail.
ReplaceSteps(id) ==
    /\ (cthumb[id] = "sharp" /\ cthumb'[id] = "update") =>
            customThumb \in files'[id] /\ record'[id] = record[id]
    /\ (cthumb[id] = "sharp" /\ cthumb'[id] = "idle") =>
            files'[id] = files[id] /\ record'[id] = record[id]
    /\ (cthumb[id] = "update" /\ cthumb'[id] = "idle" /\ record[id] # NoRec) =>
            record'[id] = [record[id] EXCEPT !.custom_thumbnail = customThumb]
    /\ (/\ record[id] # NoRec /\ record'[id] # NoRec
        /\ record'[id].custom_thumbnail # record[id].custom_thumbnail) =>
            \/ cthumb[id] = "update" /\ cthumb'[id] = "idle"
            \/ pc[id] = "update" /\ pc'[id] # "update"

FreshQuery(r) ==
    /\ r.tok.uid = r.uid
    /\ Number(r.tok.expires) = now + 15 * 60 * 1000
    /\ verifySignature(r.id, r.uid, r.tok.expires, r.tok.signature, now).valid

RefreshOwnershipOnly ==
    resp.h = "refreshToken" =>
        (resp.code = 200 <=> (resp.owner # Anon /\ resp.uid = resp.owner))
        /\ (resp.code = 200 => FreshQuery(resp))

\* C19 as the code has it: the handler issues a fresh signed query exactly
\* when the record exists, the requester owns it and its status is uploaded
\* (the owner of a record that is not uploaded is answered 423); it looks at
\* nothing else, the assets on disk included.
RefreshWhenUploaded ==
    resp.h = "refreshToken" =>
        /\ resp.code = 200 <=>
            (resp.owner # Anon /\ resp.uid = resp.owner /\ resp.seen = "uploaded")
        /\ resp.code = 200 => FreshQuery(resp)
        /\ (resp.owner # Anon /\ resp.uid = resp.owner /\ resp.seen # "uploaded")
                => resp.code = 423

\* The owner was issued a fresh query for an uploaded record whose asset
\* directory a deletion has already removed.
RefreshedWithoutAssets ==
    /\ resp.h = "refreshToken" /\ resp.code = 200
    /\ \E id \in VideoIds : id = resp.id /\ ~dir[id] /\ record[id] # NoRec

\* C20: a transcode started after a probe that found no audio stream maps no
\* audio (no -map 0:a, no audio codec, each of the four variants is its
\* video stream alone); after a probe that found audio, four audio streams
\* are mapped and variant i pairs video stream i with audio stream i.
Renditions == 0..3
StreamName(kind, i) == kind \o ":" \o ToString(i)

AudioFollowsProbe ==
    \A id \in VideoIds : pc[id] \in {"hls", "hlsKilled"} =>
        LET o == TranscodeAudio(id) IN
        /\ Len(o.var_stream_map) = 4
        /\ IF loc[id].hasAudio
           THEN /\ Len(o.maps) = 4 /\ \A k \in 1..4 : o.maps[k] = "0:a"
                /\ \A i \in Renditions :
                     o.var_stream_map[i + 1] = <<StreamName("v", i), StreamName("a", i)>>
           ELSE /\ o.maps = <<>> /\ o.codec = <<>>
                /\ \A i \in Renditions : o.var_stream_map[i + 1] = <<StreamName("v", i)>>

\* A run whose probe found no audio stream has set its record to uploaded
\* (it is about to move the original file).
SilentVideoUploaded ==
    \E id \in VideoIds :
        /\ pc[id] = "rename" /\ ~loc[id].hasAudio /\ loc[id].duration > 0
        /\ record[id] # NoRec /\ record[id].videoStatus = "uploaded"
        /\ masterPlaylist \in files[id]

\* C21: a run that comes to one of its gates (after the static frame, before
\* the transcode, before the animated preview, before the record update)
\* while the asset directory is absent stops there: it goes on to no codec
\* invocation or store call, only to the disposal of the upload, and the
\* record is left as it is.
GatedSteps == {"sharpCustom", "frame", "unlinkJpeg", "hls", "hlsKilled", "animated"}
Stopped == {"retryUnlink", "done"}

GateStops ==
    [][\A id \in VideoIds :
        (pc[id] \in GatedSteps /\ ~dir[id] /\ pc'[id] # pc[id]) =>
            /\ pc'[id] \in Stopped \cup {"hlsKilled"}
            /\ pc'[id] = "hlsKilled" => pc[id] = "hls"
            /\ record'[id] = record[id]]_vars

\* A run past its probe has stopped with the directory gone and the record,
\* not yet removed by the delete, still inProgress.
StoppedAtGate ==
    \E id \in VideoIds :
        /\ pc[id] = "retryUnlink" /\ loc[id].duration > 0 /\ ~dir[id]
        /\ record[id] # NoRec /\ record[id].videoStatus = "inProgress"

\* C22: once a video has been deleted, its folder removal has ended with the
\* folder removed (or found absent) and its run has ended, the asset
\* directory does not exist: a run that checked the record before the
\* deletion does not make the directory again.
DeletedStaysGone ==
    \A id \in VideoIds :
        (/\ record[id] = NoRec /\ del[id].db = "none" /\ del[id].task = "done"
         /\ pc[id] = "done") => ~dir[id]

\* C23: a run writes hls, the thumbnail fields and duration in one update
\* of the record, the one that sets videoStatus to uploaded; that update is
\* made only by a run whose folder check found the folder and whose record
\* check then found the record; a run that found either absent writes no
\* field of the record.
FinalFields == {"hls", "static_thumbnail", "animated_thumbnail", "duration"}
AfterCheck == {"rename", "retryUnlink", "done"}
FinalUpdateStep(id) ==
    /\ (pc'[id] = "exists" /\ pc[id] # "exists") => dir[id]
    /\ (pc'[id] = "update" /\ pc[id] # "update") =>
            pc[id] = "exists" /\ record[id] # NoRec /\ record'[id] = record[id]
    /\ (pc[id] = "exists" /\ record[id] = NoRec) =>
            pc'[id] \in {"exists"} \cup AfterCheck /\ record'[id] = NoRec
    /\ (record[id] # NoRec /\ record'[id] # NoRec
        /\ \E f \in FinalFields : record'[id][f] # record[id][f]) =>
            /\ pc[id] = "update" /\ pc'[id] \in AfterCheck
            /\ record'[id] = updateData(record[id], loc[id])
            /\ record'[id].videoStatus = "uploaded"
            /\ \A f \in FinalFields \ {"duration"} : record'[id][f] # Unset
            /\ record'[id].duration = loc[id].duration
    /\ (pc[id] \in AfterCheck /\ record'[id] # record[id]) => record'[id] = NoRec
FinalUpdateOnce == [][\A id \in VideoIds : FinalUpdateStep(id)]_vars
FinalUpdateWritten ==
    \E id \in VideoIds :
        /\ pc[id] = "rename" /\ record[id] # NoRec
        /\ record[id].videoStatus = "uploaded" /\ record[id].hls = masterPlaylist
        /\ record[id].duration > 0

\* C24: when a run ends, the uploaded file is no longer at its intake
\* path; stated for the run that found the asset directory in its finally
\* block and ends after its rename while the directory is being removed.
OriginalLeftIntake ==
    [][\A id \in VideoIds :
        (pc[id] = "rename" /\ ~dir[id] /\ pc'[id] = "done") => ~input'[id]]_vars

\* C25: a run that reaches the transcode step while the master playlist is
\* in the asset directory starts no transcode, and a run that reaches the
\* animated step while the preview is there starts no preview; no step of a
\* run changes the master playlist or the renditions once the playlist is
\* there, or the preview once it is there, so a second run on an id whose
\* outputs exist ends with the same outputs.
Outputs == {masterPlaylist, segmentFiles, staticThumb, animatedThumb}
RunStep(id) == pc'[id] # pc[id]
SkipStep(id) ==
    /\ (pc'[id] = "hls" /\ pc[id] # "hls") => masterPlaylist \notin files'[id]
    /\ (pc'[id] = "animated" /\ pc[id] # "animated") => animatedThumb \notin files'[id]
    /\ (RunStep(id) /\ masterPlaylist \in files[id]) =>
            /\ masterPlaylist \in files'[id]
            /\ segmentFiles \in files'[id] <=> segmentFiles \in files[id]
            /\ pc'[id] \notin {"hls", "hlsKilled"}
    /\ (RunStep(id) /\ animatedThumb \in files[id]) =>
            animatedThumb \in files'[id] /\ pc'[id] # "animated"
    /\ (RunStep(id) /\ Outputs \subseteq files[id]) => Outputs \subseteq files'[id]
RerunSkips == [][\A id \in VideoIds : SkipStep(id)]_vars
RerunSkipped ==
    \E id \in VideoIds :
        /\ pc[id] = "exists" /\ loc[id].duration > 0 /\ ~loc[id].custom
        /\ record[id] # NoRec /\ record[id].videoStatus = "uploaded"
        /\ Outputs \subseteq files[id]

\* C26: the folder removal task terminates: it starts an attempt only when
\* fewer than maxRetries attempts have failed before, it waits between two
\* attempts, it makes no step after an attempt that succeeded, and after
\* the failed attempt number maxRetries it gives up and makes no further
\* attempt; every task that has been started ends.
TaskEnded == {"done", "failed", "gaveup"}
RemovalStep(id) ==
    /\ (del[id].task = "rm" /\ del'[id].task # "rm") =>
            \/ del'[id].task = "done" /\ ~dir'[id] /\ del'[id].retries = del[id].retries
            \/ del'[id].task = "wait" /\ del'[id].retries = del[id].retries + 1
            \/ del'[id].task = "failed" /\ del'[id].retries = del[id].retries
    /\ (del[id].task = "wait" /\ del'[id].task # "wait") =>
            /\ del'[id].retries = del[id].retries
            /\ del'[id].task = IF del[id].retries = maxRetries THEN "gaveup" ELSE "rm"
    /\ del[id].task \in TaskEnded => del'[id] = [del[id] EXCEPT !.db = del'[id].db,
                                                               !.uid = del'[id].uid]
RemovalBounded ==
    \A id \in VideoIds :
        /\ del[id].retries \in 0..maxRetries
        /\ del[id].task = "rm" => del[id].retries < maxRetries
        /\ del[id].task = "gaveup" => del[id].retries = maxRetries
RemovalTerminates ==
    /\ []RemovalBounded
    /\ [][\A id \in VideoIds : RemovalStep(id)]_vars
    /\ \A id \in VideoIds : (del[id].task \in {"rm", "wait"}) ~> (del[id].task \in TaskEnded)
RemovalGaveUp ==
    \E id \in VideoIds :
        del[id].task = "gaveup" /\ del[id].retries = maxRetries /\ dir[id]

\* C27: while a codec invocation that writes into the asset directory is
\* running (static frame, transcode, animated preview) and the directory is
\* absent, the step that kills the subprocess is ready to be taken.
CodecSteps == {"frame", "hls", "animated"}
CodecKilledWhenFolderGone ==
    \A id \in VideoIds :
        (pc[id] \in CodecSteps /\ ~dir[id]) => ENABLED KillCheck(id)

\* C28: a transcode that ends without its master playlist while the asset
\* directory exists is reported as a failure: the run goes to its error
\* update, not on to the animated preview and the final update.
IncompleteTranscodeFails ==
    [][\A id \in VideoIds :
        (/\ pc[id] \in {"hls", "hlsKilled"} /\ pc'[id] \notin {"hls", "hlsKilled"}
         /\ dir[id] /\ masterPlaylist \notin files'[id]) =>
            pc'[id] = "errUpdate"]_vars

\* C29: once the record of an id has been deleted, no step makes a record
\* with that id exist again: not the final update of a run, not its error
\* update, not the custom-thumbnail update, not a metadata edit.
Deleted(id) == record[id] = NoRec /\ pc[id] # "none"
DeletedStaysDeleted ==
    [][\A id \in VideoIds : Deleted(id) => record'[id] = NoRec]_vars
WriteAfterDelete ==
    \E id \in VideoIds :
        /\ Deleted(id) /\ del[id].db = "none"
        /\ pc[id] = "update" /\ cthumb[id] = "update" /\ patch[id] # NoPatch

\* C30: every file the stream handler serves for a request verified for a
\* video lies inside the asset directory of that video, whatever the file
\* parameter.
ServedInsideFolder ==
    (resp.h = "streamFile" /\ resp.code = 200) =>
        /\ Len(resp.body) > Len(baseDir(resp.id))
        /\ SubSeq(resp.body, 1, Len(baseDir(resp.id))) = baseDir(resp.id)

\* C31: verifySignature looks first at whether expires parses as a number,
\* then at whether the current time is past it, then at the signature: an
\* expires that does not parse is answered as a format error whatever the
\* signature, an expired query as expired even when its signature is wrong
\* too, and the signature decides only for a query that is not expired.
Presented(q) == q.expires # <<>> /\ q.signature # NoSig /\ q.uid # Anon
WellSigned(id, q) ==
    q.signature = Hmac(STREAM_SECRET, SignedText(id, q.uid, q.expires))
VerifyOrder ==
    (resp.h = "verify" /\ Presented(resp.tok)) =>
        LET q == resp.tok
            expiryTime == Number(q.expires)
        IN  IF expiryTime = NaN THEN resp.err = "Invalid expiration format"
            ELSE IF now > expiryTime THEN resp.err = "Signed URL expired"
            ELSE IF ~WellSigned(resp.id, q) THEN resp.err = "Invalid signature"
            ELSE resp.code = 200 /\ resp.err = ""
ExpiredAndForged ==
    /\ resp.h = "verify" /\ Presented(resp.tok)
    /\ Number(resp.tok.expires) # NaN /\ now > Number(resp.tok.expires)
    /\ ~WellSigned(resp.id, resp.tok)
    /\ resp.err = "Signed URL expired"
UnparsedAndForged ==
    /\ resp.h = "verify" /\ Presented(resp.tok)
    /\ Number(resp.tok.expires) = NaN /\ ~WellSigned(resp.id, resp.tok)
    /\ resp.err = "Invalid expiration format"

\* C32: a delete that fails to remove the record and answers with an error
\* leaves the assets as they are: when the 500 is answered for a video
\* that is uploaded, its asset directory is there.
FailedDeleteKeepsAssets ==
    (/\ resp.h = "delete" /\ resp.code = 500
     /\ record[resp.id] # NoRec /\ record[resp.id].videoStatus = "uploaded") =>
        dir[resp.id] /\ files[resp.id] # {}

\* C33: a metadata edit and the final update or error update of a run that
\* are under way at the same time both take effect, in either order: the
\* update of the run leaves title, description, category and tags as the
\* edit set them and writes its status, and an edit that is applied while
\* or after the run writes leaves the status and the fields the run wrote.
RunWrites == {"update", "errUpdate"}
ConcurrentStep(id) ==
    /\ (/\ pc[id] \in RunWrites /\ pc'[id] # pc[id]
        /\ record[id] # NoRec) =>
            /\ record'[id] # NoRec
            /\ \A f \in MetaFields : record'[id][f] = record[id][f]
            /\ record'[id].videoStatus = IF pc[id] = "update" THEN "uploaded" ELSE "error"
            /\ pc[id] = "update" => record'[id].hls = masterPlaylist
    /\ (/\ patch[id] # NoPatch /\ patch'[id] = NoPatch
        /\ record[id] # NoRec) =>
            /\ record'[id] # NoRec
            /\ \A f \in {"videoStatus", "duration"} \cup AssetFields :
                    record'[id][f] = record[id][f]
            /\ \A f \in MetaFields :
                    patch[id].body[f] # Undefined => record'[id][f] = patch[id].body[f]
EditAndRunBothKept == [][\A id \in VideoIds : ConcurrentStep(id)]_vars
EditDuringFinalUpdate ==
    \E id \in VideoIds :
        /\ pc[id] = "update" /\ record[id] # NoRec
        /\ resp.h = "patch" /\ resp.id = id /\ resp.code = 200
        /\ record[id].title = "t" /\ record[id].videoStatus = "inProgress"

\* C34: a run whose upload came with a custom thumbnail converts it and
\* never extracts a static frame, a run without one extracts the static
\* frame and never converts; when the run sets videoStatus to uploaded, the
\* thumbnail of its kind is in the asset directory.
ThumbnailSteps(id) ==
    /\ (pc'[id] \in {"frame", "readJpeg", "sharpStatic", "unlinkJpeg"}) => ~loc'[id].custom
    /\ pc'[id] = "sharpCustom" => loc'[id].custom
    /\ (pc[id] = "sharpCustom" /\ pc'[id] \in {"hls", "animated", "exists"}) =>
            customThumb \in files'[id] /\ ~tmpThumb'[id]
Commits(id) ==
    /\ pc[id] = "update" /\ record[id] # NoRec /\ record'[id] # NoRec
    /\ record[id].videoStatus # "uploaded" /\ record'[id].videoStatus = "uploaded"
ThumbnailThere(id) ==
    IF loc[id].custom
    THEN customThumb \in files[id] /\ staticThumb \notin files[id]
    ELSE staticThumb \in files[id] /\ customThumb \notin files[id]
StartedWithoutRecord(id) == pc[id] = "start" /\ record[id] = NoRec
NoRecordStep(id) ==
    /\ (StartedWithoutRecord(id) /\ pc'[id] # "start") =>
            /\ pc'[id] \in AfterCheck
            /\ dir'[id] = dir[id] /\ files'[id] = files[id] /\ record'[id] = NoRec
    /\ (pc[id] \in AfterCheck /\ record[id] = NoRec) =>
            /\ pc'[id] \in AfterCheck
            /\ dir'[id] => dir[id]
            /\ files'[id] \subseteq files[id] \cup {originalVideo}
            /\ record'[id] = NoRec
NoRecordNoRun == [][\A id \in VideoIds : NoRecordStep(id)]_vars
\* The run of a video that was deleted before the run looked for its record
\* is about to start.
StartsAfterDelete ==
    \E id \in VideoIds :
        StartedWithoutRecord(id) /\ del[id].db = "none" /\ input[id] /\ ~dir[id]

\* C36: the expiresAt of a 200 of the signed-url handler is the expires of
\* the signed query that the streamUrl and the thumbnailUrl of the same
\* response carry.
ExpiresAtIsExpires ==
    (resp.h = "signedUrl" /\ resp.code = 200) =>
        expiresAt(now) = Number(resp.tok.expires)

\* C37: a 206 of the download handler frames a range inside the file: its
\* start is at least 0, its end is at least its start and at most the last
\* byte of the file, and its Content-Length is end - start + 1.
RangeWithinFile ==
    (resp.h = "serve" /\ resp.code = 206) =>
        LET start == resp.dl.first
            end == resp.dl.first + resp.dl.length - 1
        IN  /\ 0 <= start /\ start <= end /\ end <= resp.dl.size - 1
            /\ resp.dl.range = ContentRange(start, end, resp.dl.size)

\* C38: when intake refuses a request for its thumbnail (413) or fails to
\* insert its record (400 Insert failed), no file that multer stored for the
\* request is left in the intake area.
IntakeFailure(r) ==
    r.h = "postVideos" /\ (r.code = 413 \/ r.err = "Insert failed")
RefusedUploadRemoved ==
    [][IntakeFailure(resp') => intake' \subseteq intake]_vars
====
